---- MODULE Spec2Model ----
(***************************************************************************)
(* Model of the image-tagging demo: the durable workflow MyWorkflow.run    *)
(* with its two approval gates and the HTTP routes that feed it            *)
(* (src/workflow/src/config.ts), and the browser hook useStatusPolling     *)
(* that polls the status route (src/unnamed/part_000).                     *)
(***************************************************************************)
EXTENDS Naturals, Sequences, FiniteSets, Bags

\* ---------------------------------------------------------------- bounds
\* handles setInterval may hand out: the number of startPolling calls
MaxTimers == 2
\* pollStatus invocations whose fetch has not settled yet
MaxInflight == 2
\* approval events of one kind the engine holds for an instance
MaxEvents == 1

\* ------------------------------------------------------------ identifiers
\* the instance the engine creates on upload
Instances == {"a"}
\* identifiers the hook may be asked to poll; "b" is unknown to the engine
Ids == {"a", "b"}
Kinds == {"approval-for-ai-tagging", "approval-for-ai-alttext"}
TagKind == "approval-for-ai-tagging"
AltKind == "approval-for-ai-alttext"

Handles == 1..MaxTimers
NoTimer == 0

\* a column of the images table that was never written
Null == "null"
\* a property the callback object does not set
Undefined == "undefined"
\* the payload variable before its waitForEvent settled
Unset == "unset"
\* waitForEvent settled by its timeout with an event that has no payload
NoPayload == "nopayload"
\* how the engine settles a wait whose timeout elapsed.  run awaits
\* step.waitForEvent with no try/catch and reads .payload of what it gets:
\* the engine rejects the promise of a wait that timed out, which run does
\* not catch; the model also admits an engine that resolves it with an event
\* carrying no payload, the one case payload?.approved provides for
TimeoutOutcomes == {"reject", "nopayload"}
\* the description the inference binding returns for each prompt
TagsText == "tags"
AltText == "alt"

VARIABLES
  pc,                \* MyWorkflow.run: the step each instance is at
  tagsPayload,       \* run: approvalTagsPayload
  altPayload,        \* run: approvalAltTextPayload
  aiText,            \* run: aiTags / aiAltText, the result of the inference step
  events,            \* engine: events sent to an instance and not yet awaited
  db,                \* DatabaseService: the row of each instance
  writes,            \* how often updateImageTags / updateImageAltText ran
  pollingIntervals,  \* useStatusPolling: pollingIntervals.current
  live,              \* timers: intervals set and not cleared
  owner,             \* timers: the instanceId each interval's closure captured
  nextTimer,         \* timers: the next handle setInterval returns
  reqs,              \* pollStatus invocations suspended at an await
  out,               \* onStatusUpdate calls made by the last step
  reported,          \* intervals still in use whose ticks already made an `error` callback
  timedOut,          \* the kinds of wait of each instance that ended by timeout
  response           \* fetch: the ResponseHandler method that built the last response

vars == <<pc, tagsPayload, altPayload, aiText, events, db, writes,
          pollingIntervals, live, owner, nextTimer, reqs, out, reported, timedOut,
          response>>

\* what a step of the workflow or of a route leaves alone in the hook
pollerState == <<pollingIntervals, live, owner, nextTimer, reqs, reported>>

\* what a step of run leaves alone outside the workflow
outsideRun == <<pollingIntervals, live, owner, nextTimer, reqs, reported, response>>

\* ================================================================ workflow

\* instance.status(): the engine's status of an instance, from where run is
InstanceStatus(i) ==
  CASE pc[i] = "queued" -> "queued"
    [] pc[i] \in {"waitTag", "waitAlt"} -> "waiting"
    [] pc[i] = "done" -> "complete"
    [] pc[i] = "failed" -> "errored"
    [] OTHER -> "running"

Terminal(i) == pc[i] \in {"done", "failed"}

\* POST /: the image is stored and an instance created
Upload(i) ==
  /\ pc[i] = "none"
  /\ pc' = [pc EXCEPT ![i] = "queued"]
  /\ out' = <<>>
  /\ UNCHANGED <<tagsPayload, altPayload, aiText, events, db, writes, timedOut>>
  /\ response' = "success"
  /\ UNCHANGED pollerState

\* the engine starts run
StartRun(i) ==
  /\ pc[i] = "queued"
  /\ pc' = [pc EXCEPT ![i] = "insert"]
  /\ out' = <<>>
  /\ UNCHANGED <<tagsPayload, altPayload, aiText, events, db, writes, timedOut>>
  /\ UNCHANGED outsideRun

\* run returning after the insert step without waiting for a decision
InsertImageThenReturn(i) ==
  /\ pc[i] = "insert"
  /\ db' = [db EXCEPT ![i] = [present |-> TRUE, tags |-> Null, altText |-> Null]]
  /\ pc' = [pc EXCEPT ![i] = "done"]
  /\ out' = <<>>
  /\ UNCHANGED <<tagsPayload, altPayload, aiText, events, writes, timedOut>>
  /\ UNCHANGED outsideRun

\* step 'Insert image name into database'
InsertImage(i) ==
  /\ pc[i] = "insert"
  /\ db' = [db EXCEPT ![i] = [present |-> TRUE, tags |-> Null, altText |-> Null]]
  /\ pc' = [pc EXCEPT ![i] = "waitTag"]
  /\ out' = <<>>
  /\ UNCHANGED <<tagsPayload, altPayload, aiText, events, writes, timedOut>>
  /\ UNCHANGED outsideRun

\* the payload of a received event, as run reads it
PayloadOf(approved) == IF approved THEN "approved" ELSE "denied"

\* a gate that reads every payload but an explicit denial as an approval
ApprovedUnlessDenied(payload) == payload # "denied"

\* approvalTagsPayload?.approved, approvalAltTextPayload?.approved
Approved(payload) == payload = "approved"

\* where run goes after a gate: into the inference step, or past it
AfterGate(payload, gen, skip) == IF Approved(payload) THEN gen ELSE skip

\* step.waitForEvent('Wait for AI Image tagging approval') receives its event
WaitTagEvent(i) ==
  /\ pc[i] = "waitTag"
  /\ events[i][TagKind] # <<>>
  /\ LET p == PayloadOf(Head(events[i][TagKind])) IN
       /\ tagsPayload' = [tagsPayload EXCEPT ![i] = p]
       /\ pc' = [pc EXCEPT ![i] = AfterGate(p, "genTags", "waitAlt")]
  /\ events' = [events EXCEPT ![i][TagKind] = Tail(@)]
  /\ out' = <<>>
  /\ UNCHANGED <<altPayload, aiText, db, writes, timedOut>>
  /\ UNCHANGED outsideRun

\* the 5 minutes of the tag wait elapse with no event of its type
WaitTagTimeout(i, o) ==
  /\ pc[i] = "waitTag"
  /\ events[i][TagKind] = <<>>
  /\ timedOut' = [timedOut EXCEPT ![i] = @ \cup {TagKind}]
  /\ IF o = "reject"
       THEN /\ pc' = [pc EXCEPT ![i] = "failed"]
            /\ UNCHANGED tagsPayload
       ELSE /\ tagsPayload' = [tagsPayload EXCEPT ![i] = NoPayload]
            /\ pc' = [pc EXCEPT ![i] = AfterGate(NoPayload, "genTags", "waitAlt")]
  /\ out' = <<>>
  /\ UNCHANGED <<altPayload, aiText, events, db, writes>>
  /\ UNCHANGED outsideRun

\* step 'Generate AI tags': the image is read and the model run; the step
\* throws when the image is gone or the model fails, and once the engine gives
\* the step up run ends errored
GenerateTags(i, ok) ==
  /\ pc[i] = "genTags"
  /\ IF ok
       THEN /\ aiText' = [aiText EXCEPT ![i].aiTags = TagsText]
            /\ pc' = [pc EXCEPT ![i] = "updTags"]
       ELSE /\ pc' = [pc EXCEPT ![i] = "failed"]
            /\ UNCHANGED aiText
  /\ out' = <<>>
  /\ UNCHANGED <<tagsPayload, altPayload, events, db, writes, timedOut>>
  /\ UNCHANGED outsideRun

\* run going on to the alt-text gate without awaiting the tags update
UpdateTagsNotAwaited(i) ==
  /\ pc[i] = "updTags"
  /\ pc' = [pc EXCEPT ![i] = "waitAlt"]
  /\ out' = <<>>
  /\ UNCHANGED <<tagsPayload, altPayload, aiText, events, db, writes, timedOut>>
  /\ UNCHANGED outsideRun

\* step 'Update DB with AI tags'
UpdateTags(i) ==
  /\ pc[i] = "updTags"
  /\ db' = [db EXCEPT ![i].tags = aiText[i].aiTags]
  /\ writes' = [writes EXCEPT ![i].tags = @ + 1]
  /\ pc' = [pc EXCEPT ![i] = "waitAlt"]
  /\ out' = <<>>
  /\ UNCHANGED <<tagsPayload, altPayload, aiText, events, timedOut>>
  /\ UNCHANGED outsideRun

\* step.waitForEvent('Wait for AI Image alt text approval') receives its event
WaitAltEvent(i) ==
  /\ pc[i] = "waitAlt"
  /\ events[i][AltKind] # <<>>
  /\ LET p == PayloadOf(Head(events[i][AltKind])) IN
       /\ altPayload' = [altPayload EXCEPT ![i] = p]
       /\ pc' = [pc EXCEPT ![i] = AfterGate(p, "genAlt", "done")]
  /\ events' = [events EXCEPT ![i][AltKind] = Tail(@)]
  /\ out' = <<>>
  /\ UNCHANGED <<tagsPayload, aiText, db, writes, timedOut>>
  /\ UNCHANGED outsideRun

\* the 5 minutes of the alt-text wait elapse with no event of its type
WaitAltTimeout(i, o) ==
  /\ pc[i] = "waitAlt"
  /\ events[i][AltKind] = <<>>
  /\ timedOut' = [timedOut EXCEPT ![i] = @ \cup {AltKind}]
  /\ IF o = "reject"
       THEN /\ pc' = [pc EXCEPT ![i] = "failed"]
            /\ UNCHANGED altPayload
       ELSE /\ altPayload' = [altPayload EXCEPT ![i] = NoPayload]
            /\ pc' = [pc EXCEPT ![i] = AfterGate(NoPayload, "genAlt", "done")]
  /\ out' = <<>>
  /\ UNCHANGED <<tagsPayload, aiText, events, db, writes>>
  /\ UNCHANGED outsideRun

\* step 'Generate AI Alt Text'
GenerateAltText(i, ok) ==
  /\ pc[i] = "genAlt"
  /\ IF ok
       THEN /\ aiText' = [aiText EXCEPT ![i].aiAltText = AltText]
            /\ pc' = [pc EXCEPT ![i] = "updAlt"]
       ELSE /\ pc' = [pc EXCEPT ![i] = "failed"]
            /\ UNCHANGED aiText
  /\ out' = <<>>
  /\ UNCHANGED <<tagsPayload, altPayload, events, db, writes, timedOut>>
  /\ UNCHANGED outsideRun

\* run returning without awaiting the alt-text update, which lands afterwards
UpdateAltTextNotAwaited(i) ==
  /\ writes[i].altText = 0
  /\ \/ /\ pc[i] = "updAlt"
        /\ pc' = [pc EXCEPT ![i] = "done"]
        /\ UNCHANGED <<db, writes>>
     \/ /\ pc[i] = "done" /\ aiText[i].aiAltText # Undefined
        /\ db' = [db EXCEPT ![i].altText = aiText[i].aiAltText]
        /\ writes' = [writes EXCEPT ![i].altText = @ + 1]
        /\ UNCHANGED pc
  /\ out' = <<>>
  /\ UNCHANGED <<tagsPayload, altPayload, aiText, events, timedOut>>
  /\ UNCHANGED outsideRun

\* step 'Update DB with AI Alt text', after which run returns
UpdateAltText(i) ==
  /\ pc[i] = "updAlt"
  /\ db' = [db EXCEPT ![i].altText = aiText[i].aiAltText]
  /\ writes' = [writes EXCEPT ![i].altText = @ + 1]
  /\ pc' = [pc EXCEPT ![i] = "done"]
  /\ out' = <<>>
  /\ UNCHANGED <<tagsPayload, altPayload, aiText, events, timedOut>>
  /\ UNCHANGED outsideRun

\* POST /approval-for-ai-tagging and POST /approval-for-ai-alttext with a valid
\* body: the event is sent to the instance, which the engine holds until run
\* waits for its type
SendApproval(kind, i, approved) ==
  /\ pc[i] # "none"
  /\ Len(events[i][kind]) < MaxEvents
  /\ events' = [events EXCEPT ![i][kind] = Append(@, approved)]
  /\ out' = <<>>
  /\ UNCHANGED <<pc, tagsPayload, altPayload, aiText, db, writes, timedOut>>
  /\ response' = "success"
  /\ UNCHANGED pollerState

\* ================================================================== poller

\* the object handed to onStatusUpdate
Callback(id, status, tags, alt) ==
  [instanceId |-> id, status |-> status, aiTags |-> tags, aiAltText |-> alt]

\* the hook's state as its functions read and write it
Hook == [intervals |-> pollingIntervals, live |-> live, out |-> <<>>]

\* stopPolling that deletes the entry of the table and leaves the timer running
stopPollingKeepsTimer(h, id) ==
  [h EXCEPT !.intervals = [@ EXCEPT ![id] = NoTimer]]

\* stopPolling that clears every interval of the table, as the cleanup does
stopPollingEvery(h, id) ==
  [h EXCEPT !.live = @ \ {h.intervals[o] : o \in Ids},
            !.intervals = [o \in Ids |-> NoTimer]]

\* stopPolling(instanceId)
stopPolling(h, id) ==
  IF h.intervals[id] # NoTimer
    THEN [h EXCEPT !.live = @ \ {h.intervals[id]},
                   !.intervals = [@ EXCEPT ![id] = NoTimer]]
    ELSE h

\* handleError that reports the error and leaves the interval running
handleErrorKeepsPolling(h, id) ==
  [h EXCEPT !.out = Append(@, Callback(id, "error", Undefined, Undefined))]

\* handleError(instanceId, fileName)
handleError(h, id) ==
  stopPolling([h EXCEPT !.out = Append(@, Callback(id, "error", Undefined, Undefined))], id)

\* startPolling that does not cancel the poll it replaces
startPollingKeepsOld(h, id, t) ==
  [h EXCEPT !.intervals = [@ EXCEPT ![id] = t], !.live = @ \cup {t}]

\* startPolling(instanceId, fileName), t the handle setInterval returns
startPolling(h, id, t) ==
  LET s == stopPolling(h, id) IN
    [s EXCEPT !.intervals = [@ EXCEPT ![id] = t], !.live = @ \cup {t}]

\* GET /?instanceId=id as fetch sees it: net is whether the transport delivers,
\* the route answers 500 when the engine knows no such instance
StatusResponse(id, net) ==
  IF net /\ id \in Instances /\ pc[id] # "none"
    THEN [ok |-> TRUE, status |-> InstanceStatus(id), error |-> pc[id] = "failed"]
    ELSE [ok |-> FALSE, status |-> "none", error |-> TRUE]

\* GET /alttext?instanceId=id
AltTextResponse(id, net) ==
  IF net /\ id \in Instances /\ db[id].present
    THEN [ok |-> TRUE, altText |-> db[id].altText]
    ELSE [ok |-> FALSE, altText |-> Undefined]

\* GET /tags?instanceId=id
TagsResponse(id, net) ==
  IF net /\ id \in Instances /\ db[id].present
    THEN [ok |-> TRUE, tags |-> db[id].tags]
    ELSE [ok |-> FALSE, tags |-> Undefined]

\* pollStatus that never reads data.error
pollStatusBodyIgnoresError(h, id, r) ==
  IF ~r.ok THEN handleError(h, id)
  ELSE [h EXCEPT !.out = Append(@, Callback(id, r.status, Undefined, Undefined))]

\* pollStatus from the settled status fetch to its next await or its return
pollStatusBody(h, id, r) ==
  IF ~r.ok THEN handleError(h, id)
  ELSE LET h1 == [h EXCEPT !.out = Append(@, Callback(id, r.status, Undefined, Undefined))] IN
       IF r.status = "complete" THEN h1
       ELSE IF r.error THEN handleError(h1, id)
       ELSE h1

\* fetchWorkflowRes from the settled alt-text fetch on; a failure is caught,
\* reported, and pollStatus then calls stopPolling once more
altTextBody(h, id, r) ==
  IF ~r.ok THEN stopPolling(handleError(h, id), id) ELSE h

\* fetchWorkflowRes reporting the alt text alone when the tags fetch fails
tagsBodyPartial(h, id, r, alt) ==
  stopPolling(stopPolling(
    [h EXCEPT !.out = Append(@, Callback(id, "complete", r.tags, alt))], id), id)

\* fetchWorkflowRes from the settled tags fetch on, and pollStatus's stopPolling
tagsBody(h, id, r, alt) ==
  IF ~r.ok THEN stopPolling(handleError(h, id), id)
  ELSE stopPolling(stopPolling(
         [h EXCEPT !.out = Append(@, Callback(id, "complete", r.tags, alt))], id), id)

\* the error callbacks among the calls a step made
ErrorCalls(o) == Cardinality({k \in 1..Len(o) : o[k].status = "error"})

\* the callbacks with status `complete` among the calls a step made
CompleteCalls(o) == Cardinality({k \in 1..Len(o) : o[k].status = "complete"})

\* a pollStatus invocation of interval t suspended at the await named by pc,
\* with the alt text it holds and the `complete` callbacks it has made
Request(t, at, alt, n) == [pc |-> at, timer |-> t, altText |-> alt, completes |-> n]

\* the suspended invocations, with r resumed as the invocations in now
Resume(r, now) == (reqs (-) SetToBag({r})) (+) now

\* the intervals that are live or have an invocation in flight in lv and rq,
\* among those in rep and, when the step made an `error` callback, t
Reported(rep, t, o, lv, rq) ==
  {u \in (IF ErrorCalls(o) > 0 THEN rep \cup {t} ELSE rep) :
     u \in lv \/ \E q \in BagToSet(rq) : q.timer = u}

workflowState == <<pc, tagsPayload, altPayload, aiText, events, db, writes, timedOut,
                   response>>

\* the caller starts a poll
StartPolling(id) ==
  /\ nextTimer <= MaxTimers
  /\ LET h == startPolling(Hook, id, nextTimer) IN
       /\ pollingIntervals' = h.intervals
       /\ live' = h.live
       /\ out' = h.out
  /\ owner' = [owner EXCEPT ![nextTimer] = id]
  /\ nextTimer' = nextTimer + 1
  /\ UNCHANGED <<reqs, reported>>
  /\ UNCHANGED workflowState

\* an interval fires: pollStatus runs up to its await of the status fetch
Tick(t) ==
  /\ t \in live
  /\ BagCardinality(reqs) < MaxInflight
  /\ reqs' = reqs (+) SetToBag({Request(t, "status", Undefined, 0)})
  /\ out' = <<>>
  /\ UNCHANGED <<pollingIntervals, live, owner, nextTimer, reported>>
  /\ UNCHANGED workflowState

\* the status fetch of an invocation settles with response resp
StatusSettlesWith(r, resp) ==
  /\ BagIn(r, reqs)
  /\ r.pc = "status"
  /\ LET id == owner[r.timer]
         h == pollStatusBody(Hook, id, resp) IN
       /\ pollingIntervals' = h.intervals
       /\ live' = h.live
       /\ out' = h.out
       /\ reqs' = Resume(r, IF resp.ok /\ resp.status = "complete"
                               THEN SetToBag({Request(r.timer, "alttext", Undefined, CompleteCalls(h.out))})
                               ELSE EmptyBag)
       /\ reported' = Reported(reported, r.timer, h.out, live', reqs')
  /\ UNCHANGED <<owner, nextTimer>>
  /\ UNCHANGED workflowState

\* the status fetch of an invocation settles, answered by the worker
StatusSettles(r, net) ==
  /\ BagIn(r, reqs)
  /\ StatusSettlesWith(r, StatusResponse(owner[r.timer], net))

\* the alt-text fetch of an invocation settles with response resp
AltTextSettlesWith(r, resp) ==
  /\ BagIn(r, reqs)
  /\ r.pc = "alttext"
  /\ LET id == owner[r.timer]
         h == altTextBody(Hook, id, resp) IN
       /\ pollingIntervals' = h.intervals
       /\ live' = h.live
       /\ out' = h.out
       /\ reqs' = Resume(r, IF resp.ok
                               THEN SetToBag({Request(r.timer, "tags", resp.altText, r.completes)})
                               ELSE EmptyBag)
       /\ reported' = Reported(reported, r.timer, h.out, live', reqs')
  /\ UNCHANGED <<owner, nextTimer>>
  /\ UNCHANGED workflowState

\* the alt-text fetch of an invocation settles, answered by the worker
AltTextSettles(r, net) ==
  /\ BagIn(r, reqs)
  /\ AltTextSettlesWith(r, AltTextResponse(owner[r.timer], net))

\* the tags fetch of an invocation settles with response resp
TagsSettlesWith(r, resp) ==
  /\ BagIn(r, reqs)
  /\ r.pc = "tags"
  /\ LET id == owner[r.timer]
         h == tagsBody(Hook, id, resp, r.altText) IN
       /\ pollingIntervals' = h.intervals
       /\ live' = h.live
       /\ out' = h.out
       /\ reqs' = Resume(r, EmptyBag)
       /\ reported' = Reported(reported, r.timer, h.out, live', reqs')
  /\ UNCHANGED <<owner, nextTimer>>
  /\ UNCHANGED workflowState

\* the tags fetch of an invocation settles, answered by the worker
TagsSettles(r, net) ==
  /\ BagIn(r, reqs)
  /\ TagsSettlesWith(r, TagsResponse(owner[r.timer], net))

\* a cleanup that clears the interval of one entry of the table only
TeardownOne ==
  /\ \E id \in Ids : live' = live \ {pollingIntervals[id]}
  /\ out' = <<>>
  /\ UNCHANGED <<pollingIntervals, owner, nextTimer, reqs, reported>>
  /\ UNCHANGED workflowState

\* the cleanup of the effect: every interval in the table is cleared
Teardown ==
  /\ live' = live \ {pollingIntervals[id] : id \in Ids}
  /\ out' = <<>>
  /\ UNCHANGED <<pollingIntervals, owner, nextTimer, reqs, reported>>
  /\ UNCHANGED workflowState

\* ============================================================ specification

Init ==
  /\ pc = [i \in Instances |-> "none"]
  /\ tagsPayload = [i \in Instances |-> Unset]
  /\ altPayload = [i \in Instances |-> Unset]
  /\ aiText = [i \in Instances |-> [aiTags |-> Undefined, aiAltText |-> Undefined]]
  /\ events = [i \in Instances |-> [k \in Kinds |-> <<>>]]
  /\ db = [i \in Instances |-> [present |-> FALSE, tags |-> Null, altText |-> Null]]
  /\ writes = [i \in Instances |-> [tags |-> 0, altText |-> 0]]
  /\ timedOut = [i \in Instances |-> {}]
  /\ pollingIntervals = [id \in Ids |-> NoTimer]
  /\ live = {}
  /\ owner = [t \in Handles |-> "none"]
  /\ nextTimer = 1
  /\ reqs = EmptyBag
  /\ out = <<>>
  /\ reported = {}
  /\ response = "none"

\* run is suspended in the wait for events of this kind
Waiting(i, kind) ==
  \/ kind = TagKind /\ pc[i] = "waitTag"
  \/ kind = AltKind /\ pc[i] = "waitAlt"

\* the approver answers, once, while the wait for the decision is open
AnswerPrompt(kind, i, approved) ==
  /\ Waiting(i, kind)
  /\ events[i][kind] = <<>>
  /\ SendApproval(kind, i, approved)

\* the steps of the engine for one instance
RunStep(i) ==
  \/ StartRun(i)
  \/ InsertImage(i)
  \/ WaitTagEvent(i)
  \/ \E o \in TimeoutOutcomes : WaitTagTimeout(i, o)
  \/ \E ok \in BOOLEAN : GenerateTags(i, ok)
  \/ UpdateTags(i)
  \/ WaitAltEvent(i)
  \/ \E o \in TimeoutOutcomes : WaitAltTimeout(i, o)
  \/ \E ok \in BOOLEAN : GenerateAltText(i, ok)
  \/ UpdateAltText(i)

\* the workflow with the routes that create it and signal it
NextWorkflow ==
  \/ \E i \in Instances : Upload(i)
  \/ \E i \in Instances : RunStep(i)
  \/ \E k \in Kinds, i \in Instances, b \in BOOLEAN : SendApproval(k, i, b)

WorkflowSpec == Init /\ [][NextWorkflow]_vars

\* the hook polling the workflow.  The hook sees an instance only through the
\* status, alt-text and tags routes, none of which shows an event the engine
\* holds: an event sent before its wait opens is handed over when it opens and
\* one sent after it closed is never read, so an approver who answers while
\* the wait is open gives the hook everything it can observe.
Next ==
  \/ \E i \in Instances : Upload(i)
  \/ \E i \in Instances : RunStep(i)
  \/ \E k \in Kinds, i \in Instances, b \in BOOLEAN : AnswerPrompt(k, i, b)
  \/ \E id \in Ids : StartPolling(id)
  \/ \E t \in Handles : Tick(t)
  \/ \E r \in BagToSet(reqs), net \in BOOLEAN : StatusSettles(r, net)
  \/ \E r \in BagToSet(reqs), net \in BOOLEAN : AltTextSettles(r, net)
  \/ \E r \in BagToSet(reqs), net \in BOOLEAN : TagsSettles(r, net)
  \/ Teardown

Spec == Init /\ [][Next]_vars

\* the engine keeps running an instance that has a step to take, and its
\* timers fire
FairWorkflowSpec == WorkflowSpec /\ \A i \in Instances : WF_vars(RunStep(i))

\* the requests of interval t that are in flight
RequestsOf(t) == {r \in BagToSet(reqs) : r.timer = t}

\* a fetch of an invocation of interval t settles
SettlesFor(t) ==
  \E r \in RequestsOf(t), net \in BOOLEAN :
    StatusSettles(r, net) \/ AltTextSettles(r, net) \/ TagsSettles(r, net)

\* the browser fires the tick of a live interval and settles every fetch; the
\* engine keeps running an instance that has a step to take
FairSpec ==
  /\ Spec
  /\ \A t \in Handles : WF_vars(Tick(t)) /\ WF_vars(SettlesFor(t))
  /\ \A i \in Instances : WF_vars(RunStep(i))

\* the statuses the hook tells apart, `running` standing for every other
Statuses == {"running", "complete", "errored"}

\* what the fetches of the hook can settle with: whether the response is a
\* success, and what pollStatus and fetchWorkflowRes read of its payload (the
\* status of a response that is not a success is never read)
StatusPayloads ==
  [ok : {TRUE}, status : Statuses, error : BOOLEAN]
    \cup [ok : {FALSE}, status : {"none"}, error : BOOLEAN]

AltTextPayloads ==
  [ok : {TRUE}, altText : {AltText, Null}] \cup {[ok |-> FALSE, altText |-> Undefined]}

TagsPayloads ==
  [ok : {TRUE}, tags : {TagsText, Null}] \cup {[ok |-> FALSE, tags |-> Undefined]}

\* the hook alone, against endpoints that may answer anything of the shapes
\* it reads
NextHook ==
  \/ \E id \in Ids : StartPolling(id)
  \/ \E t \in Handles : Tick(t)
  \/ \E r \in BagToSet(reqs), resp \in StatusPayloads : StatusSettlesWith(r, resp)
  \/ \E r \in BagToSet(reqs), resp \in AltTextPayloads : AltTextSettlesWith(r, resp)
  \/ \E r \in BagToSet(reqs), resp \in TagsPayloads : TagsSettlesWith(r, resp)
  \/ Teardown

HookSpec == Init /\ [][NextHook]_vars

\* ============================================================ fetch router

Methods == {"OPTIONS", "GET", "POST", "PUT"}

TAGS == "/tags"
TAG_APPROVAL == "/approval-for-ai-tagging"
ALTTEXT == "/alttext"
ALTTEXT_APPROVAL == "/approval-for-ai-alttext"
Root == "/"
Favicon == "/favicon.ico"
Elsewhere == "/elsewhere"

\* the paths of the route table
ROUTES == {Root, TAGS, ALTTEXT, TAG_APPROVAL, ALTTEXT_APPROVAL}

Paths == ROUTES \cup {Favicon, Elsewhere}

\* the method the route table lists for a path
Listed(path) == IF path \in {TAGS, ALTTEXT} THEN {"GET"}
                ELSE IF path \in {TAG_APPROVAL, ALTTEXT_APPROVAL} THEN {"POST"}
                ELSE {"GET", "POST"}

\* the event type each approval route sends
KindOf(path) == IF path = TAG_APPROVAL THEN TagKind ELSE AltKind

\* a request as fetch reads it: instanceId is the query parameter or the body's
\* field, approved the body's field, body what the request carries (a
\* multipart form with or without an image file, JSON, or neither), healthy
\* whether the storage, database and engine calls it makes succeed
Req(m, p, id, ap, b, h) ==
  [method |-> m, path |-> p, instanceId |-> id, approved |-> ap, body |-> b,
   healthy |-> h]

InstanceIds == Instances \cup {"missing"}

\* the requests sent to the worker; a field that no branch reads for the
\* request's method and path has one value only
Requests ==
  {Req("OPTIONS", p, "missing", "other", "other", TRUE) : p \in Paths}
  \cup {Req("POST", p[1], p[2], p[3], "json", p[4]) :
          p \in {TAG_APPROVAL, ALTTEXT_APPROVAL} \X InstanceIds
                  \X {"true", "false", "other"} \X BOOLEAN}
  \cup {Req("POST", p, "missing", "other", "other", TRUE) :
          p \in {TAG_APPROVAL, ALTTEXT_APPROVAL}}
  \cup {Req(p[1], p[2], p[3], "true", "json", TRUE) :
          p \in {"GET", "PUT"} \X {TAG_APPROVAL, ALTTEXT_APPROVAL} \X InstanceIds}
  \cup {Req("GET", p[1], p[2], "other", "other", p[3]) :
          p \in {TAGS, ALTTEXT, Root} \X InstanceIds \X BOOLEAN}
  \cup {Req(p[1], p[2], p[3], "other", "other", TRUE) :
          p \in {"POST", "PUT"} \X {TAGS, ALTTEXT} \X InstanceIds}
  \cup {Req("PUT", Root, id, "other", "other", TRUE) : id \in InstanceIds}
  \cup {Req("POST", Root, "missing", "other", p[1], p[2]) :
          p \in ({"form"} \X BOOLEAN)
                  \cup ({"formNoImage", "json", "other"} \X {TRUE})}
  \cup {Req(p[1], p[2], "missing", "other", "other", TRUE) :
          p \in {"GET", "POST", "PUT"} \X {Favicon, Elsewhere}}

\* HTTP_STATUS, keyed by the ResponseHandler method that builds the response
StatusCode(kind) ==
  CASE kind \in {"success", "corsPreflight"} -> 200
    [] kind = "badRequest" -> 400
    [] kind = "notFound" -> 404
    [] kind = "methodNotAllowed" -> 405
    [] kind = "error" -> 500
    [] OTHER -> 0

\* a response that leaves the workflow alone
Reply(kind) == [response |-> kind, effect |-> "none"]

\* the approval routes validate the body with only the identifier
ValidApprovalIdOnly(req) == req.instanceId # "missing"

\* !instanceId || typeof approved !== 'boolean', negated
ValidApproval(req) ==
  req.instanceId # "missing" /\ req.approved \in {"true", "false"}

\* the two approval routes
ApprovalRoute(req) ==
  IF req.method # "POST" THEN Reply("methodNotAllowed")
  ELSE IF req.body # "json" THEN Reply("error")
  ELSE IF ~ValidApproval(req) THEN Reply("badRequest")
  ELSE IF ~req.healthy \/ req.instanceId \notin Instances THEN Reply("error")
  ELSE IF pc[req.instanceId] = "none" THEN Reply("error")
  ELSE [response |-> "success", effect |-> "send"]

\* POST /
UploadRoute(req) ==
  IF req.body \notin {"form", "formNoImage"} THEN Reply("badRequest")
  ELSE IF req.body = "formNoImage" THEN Reply("badRequest")
  ELSE IF ~req.healthy THEN Reply("error")
  ELSE [response |-> "success", effect |-> "create"]

\* the routes in the order fetch tries them
Route(req) ==
  IF req.method = "OPTIONS" THEN Reply("corsPreflight")
  ELSE IF req.path = TAGS THEN
    IF req.instanceId = "missing" THEN Reply("badRequest")
    ELSE IF TagsResponse(req.instanceId, req.healthy).ok THEN Reply("success")
    ELSE Reply("error")
  ELSE IF req.path = TAG_APPROVAL THEN ApprovalRoute(req)
  ELSE IF req.method = "POST" /\ req.path = Root THEN UploadRoute(req)
  ELSE IF req.path = ALTTEXT THEN
    IF req.instanceId = "missing" THEN Reply("badRequest")
    ELSE IF AltTextResponse(req.instanceId, req.healthy).ok THEN Reply("success")
    ELSE Reply("error")
  ELSE IF req.path = ALTTEXT_APPROVAL THEN ApprovalRoute(req)
  ELSE IF req.method = "GET" /\ req.path = Root THEN
    IF req.instanceId = "missing" THEN Reply("badRequest")
    ELSE IF StatusResponse(req.instanceId, req.healthy).ok THEN Reply("success")
    ELSE Reply("error")
  ELSE IF req.path = Favicon THEN Reply("notFound")
  ELSE Reply("badRequest")

\* fetch answers a request
Fetch(req) ==
  LET rt == Route(req) IN
    CASE rt.effect = "create" -> \E i \in Instances : Upload(i)
      [] rt.effect = "send" ->
           SendApproval(KindOf(req.path), req.instanceId, req.approved = "true")
      [] OTHER ->
           /\ response' = rt.response
           /\ out' = <<>>
           /\ UNCHANGED <<pc, tagsPayload, altPayload, aiText, events, db, writes,
                          timedOut>>
           /\ UNCHANGED pollerState

\* the worker as its clients see it: any request at any time
NextBoundary ==
  \/ \E req \in Requests : Fetch(req)
  \/ \E i \in Instances : RunStep(i)

BoundarySpec == Init /\ [][NextBoundary]_vars

\* ================================================================== claims

\* the intervals that are live for an identifier
LiveFor(id) == {t \in live : owner[t] = id}

\* a derived field the callback does not carry
Missing(v) == v \in {Undefined, Null}

\* C1: at most one interval is live per identifier, and every live interval
\* is the one the table records under its identifier
AtMostOnePoll ==
  /\ \A id \in Ids : Cardinality(LiveFor(id)) <= 1
  /\ \A t \in live : pollingIntervals[owner[t]] = t

\* C1 witness: startPolling was called a second time for an identifier while
\* a request of its first interval is still in flight
RestartedWhileInFlight ==
  \E id \in Ids :
    /\ owner[1] = id /\ owner[2] = id
    /\ pollingIntervals[id] = 2 /\ 2 \in live
    /\ \E r \in BagToSet(reqs) : r.timer = 1

\* C2 (as claimed): every callback with status `complete` carries both derived
\* fields
CompleteCarriesBoth ==
  \A k \in 1..Len(out) :
    out[k].status = "complete" => ~Missing(out[k].aiTags) /\ ~Missing(out[k].aiAltText)

\* C3: each inference step runs, and each derived field is written, only after
\* an event of the gate's kind with approved = true was received; a field is
\* written at most once, and never after a denial or a timeout of its gate
GatedInference ==
  \A i \in Instances :
    /\ pc[i] \in {"genTags", "updTags"} => tagsPayload[i] = "approved"
    /\ pc[i] \in {"genAlt", "updAlt"} => altPayload[i] = "approved"
    /\ aiText[i].aiTags # Undefined \/ db[i].tags # Null \/ writes[i].tags > 0
         => tagsPayload[i] = "approved" /\ TagKind \notin timedOut[i]
    /\ aiText[i].aiAltText # Undefined \/ db[i].altText # Null \/ writes[i].altText > 0
         => altPayload[i] = "approved" /\ AltKind \notin timedOut[i]
    /\ writes[i].tags <= 1 /\ writes[i].altText <= 1

\* C3 witness: the run ended with the tags written after an approval and the
\* alt text left unwritten after a denial
ApprovedTagsDeniedAltText ==
  \E i \in Instances :
    /\ pc[i] = "done"
    /\ tagsPayload[i] = "approved" /\ db[i].tags = TagsText /\ writes[i].tags = 1
    /\ altPayload[i] = "denied" /\ db[i].altText = Null

\* C4 (as claimed): after a wait timed out the run goes on to the next stage,
\* and it ends with status complete and the gate's field unset
TimeoutSkipsStage ==
  \A i \in Instances :
    /\ TagKind \in timedOut[i] =>
         /\ pc[i] \in {"waitAlt", "genAlt", "updAlt", "done"}
         /\ db[i].tags = Null
    /\ AltKind \in timedOut[i] => pc[i] = "done" /\ db[i].altText = Null
    /\ timedOut[i] # {} /\ Terminal(i) => InstanceStatus(i) = "complete"

\* C5 (as claimed): whatever the approver does, the status of a created
\* instance eventually reports completion
EventuallyComplete ==
  \A i \in Instances : (pc[i] = "queued") ~> (InstanceStatus(i) = "complete")

\* C6: the row is inserted before the first gate, the tag gate is resolved
\* and an approved tagging is written before the alt-text gate is entered,
\* and nothing of the alt-text stage happens before that
StagesOrdered ==
  \A i \in Instances :
    /\ pc[i] \notin {"none", "queued", "insert"} => db[i].present
    /\ pc[i] \in {"none", "queued", "insert", "waitTag", "genTags", "updTags"} =>
         /\ altPayload[i] = Unset /\ AltKind \notin timedOut[i]
         /\ aiText[i].aiAltText = Undefined /\ db[i].altText = Null
    /\ pc[i] \in {"waitAlt", "genAlt", "updAlt"} \/ altPayload[i] # Unset
       \/ AltKind \in timedOut[i] =>
         /\ tagsPayload[i] \in {"approved", "denied", NoPayload}
         /\ tagsPayload[i] = "approved" => db[i].tags = TagsText

\* C6 witness: the alt-text approval was sent before any tag approval, and
\* the run still waits at the tag gate
AltTextApprovalSentFirst ==
  \E i \in Instances :
    /\ pc[i] = "waitTag"
    /\ events[i][AltKind] = <<TRUE>>
    /\ events[i][TagKind] = <<>>

\* the status fetch of invocation r fails: the transport, or a non-success
\* response
StatusFails(r) ==
  \E net \in BOOLEAN :
    /\ ~StatusResponse(owner[r.timer], net).ok
    /\ StatusSettles(r, net)

\* a follow-up fetch of invocation r fails
FollowUpFails(r) ==
  \E net \in BOOLEAN :
    \/ ~AltTextResponse(owner[r.timer], net).ok /\ AltTextSettles(r, net)
    \/ ~TagsResponse(owner[r.timer], net).ok /\ TagsSettles(r, net)

\* C7: one failed status request ends the poll of its identifier: the step
\* that processes it makes an `error` callback and leaves no interval for the
\* identifier; a tick is only ever issued by a live interval the table
\* records, and an interval only becomes live in a call of startPolling
FailedTickStopsPolling ==
  /\ [][\A r \in BagToSet(reqs) : StatusFails(r) =>
          /\ \E k \in 1..Len(out') : out'[k] = Callback(owner[r.timer], "error", Undefined, Undefined)
          /\ pollingIntervals'[owner[r.timer]] = NoTimer
          /\ {t \in live' : owner'[t] = owner[r.timer]} = {}]_vars
  /\ [][\A t \in Handles :
          /\ CopiesIn(Request(t, "status", Undefined, 0), reqs')
                 > CopiesIn(Request(t, "status", Undefined, 0), reqs)
               => t \in live /\ pollingIntervals[owner[t]] = t
          /\ t \in live' \ live => t = nextTimer /\ nextTimer' = nextTimer + 1]_vars

\* C7 witness: the only poll started was for the identifier the engine does
\* not know, its status request failed, and nothing is left polling
UnknownInstancePollEnded ==
  /\ nextTimer = 2 /\ owner[1] = "b" /\ reqs = EmptyBag
  /\ out = <<Callback("b", "error", Undefined, Undefined)>>
  /\ pollingIntervals["b"] = NoTimer /\ live = {}

\* invocation r is resumed by the step
Settles(r) ==
  \E net \in BOOLEAN :
    StatusSettles(r, net) \/ AltTextSettles(r, net) \/ TagsSettles(r, net)

\* C8 (as claimed): the ticks of one startPolling run make at most one `error`
\* callback
ErrorReportedOnce ==
  [][\A r \in BagToSet(reqs) : Settles(r) /\ ErrorCalls(out') > 0 =>
       r.timer \notin reported /\ ErrorCalls(out') = 1]_vars

\* C9 (as claimed): a tick that saw `complete` and whose follow-up fetches both
\* succeed makes exactly one `complete` callback, which carries both fields,
\* and leaves no interval for the identifier
OneCompleteCallback ==
  [][\A r \in BagToSet(reqs) :
       TagsSettles(r, TRUE) /\ TagsResponse(owner[r.timer], TRUE).ok =>
         /\ r.completes + CompleteCalls(out') = 1
         /\ \A k \in 1..Len(out') : out'[k].aiTags # Undefined /\ out'[k].aiAltText # Undefined
         /\ pollingIntervals'[owner[r.timer]] = NoTimer]_vars

\* C10: when a follow-up fetch fails the step makes the `error` callback and
\* nothing else, no callback of it carries a derived field, the invocation
\* ends, and no interval is left for the identifier
FollowUpFailureReportsError ==
  [][\A r \in BagToSet(reqs) : FollowUpFails(r) =>
       /\ out' = <<Callback(owner[r.timer], "error", Undefined, Undefined)>>
       /\ pollingIntervals'[owner[r.timer]] = NoTimer
       /\ {t \in live' : owner'[t] = owner[r.timer]} = {}
       /\ reqs' = reqs (-) SetToBag({r})]_vars

\* C10 witness: an invocation saw `complete`, holds the alt text and awaits
\* the tags fetch, which may fail
AwaitingTagsWithAltText ==
  \E r \in BagToSet(reqs) : r.pc = "tags" /\ r.altText = AltText

TeardownCancelsAll ==
  /\ [][Teardown => live' = {}]_vars
  /\ [][\A t \in live' \ live : t = nextTimer /\ nextTimer' = t + 1]_vars
  /\ [][\A t \in Handles :
          CopiesIn(Request(t, "status", Undefined, 0), reqs')
            > CopiesIn(Request(t, "status", Undefined, 0), reqs) => t \in live]_vars

\* C12 witness: the cleanup ran while every identifier was polled and a
\* request was in flight: the table still names an interval for each, none
\* is live
TornDownWhileAllPolled ==
  /\ \A id \in Ids : pollingIntervals[id] # NoTimer
  /\ live = {}
  /\ reqs # EmptyBag

\* a request to an approval route whose body parses as JSON but lacks
\* instanceId or whose approved is not a boolean
InvalidApproval(req) ==
  /\ req.path \in {TAG_APPROVAL, ALTTEXT_APPROVAL}
  /\ req.method = "POST" /\ req.body = "json"
  /\ req.instanceId = "missing" \/ req.approved \notin {"true", "false"}

BoundaryClassifies ==
  [][\A req \in Requests : Fetch(req) /\ req.method # "OPTIONS" =>
       /\ req.path \notin ROUTES => StatusCode(response') = 404
       /\ req.path \in ROUTES /\ req.method \notin Listed(req.path) =>
            StatusCode(response') = 405
       /\ /\ req.path \in ROUTES /\ req.method \in Listed(req.path)
          /\ req.instanceId = "missing"
          /\ req.path # Root \/ req.method = "GET"
          => StatusCode(response') = 400]_vars

\* C15: once the status of an instance is terminal it stays what it is and
\* neither tags nor altText is written again
NoWriteAfterTerminal ==
  [][\A i \in Instances : Terminal(i) =>
       db'[i] = db[i] /\ writes'[i] = writes[i] /\ pc'[i] = pc[i]]_vars

\* C15 witness: a run that wrote both fields has returned, and a decision
\* sent after its gate closed is held unread by the engine
CompleteWithLateDecision ==
  \E i \in Instances :
    /\ pc[i] = "done"
    /\ db[i].tags = TagsText /\ db[i].altText = AltText
    /\ events[i][TagKind] # <<>>

\* the status GET / reports for an instance is terminal
ReportedTerminal(i) ==
  StatusResponse(i, TRUE).ok /\ StatusResponse(i, TRUE).status \in {"complete", "errored"}

\* an approval was granted for the instance: sent to it, or received by run
ApprovalGranted(i) ==
  \/ tagsPayload[i] = "approved" \/ altPayload[i] = "approved"
  \/ \E k \in Kinds : \E n \in DOMAIN events[i][k] : events[i][k][n]

ErrorReportedAndStopped(r) ==
  /\ ErrorCalls(out') = 1
  /\ out'[Len(out')] = Callback(owner[r.timer], "error", Undefined, Undefined)
  /\ pollingIntervals'[owner[r.timer]] = NoTimer
  /\ \A t \in live' : owner[t] # owner[r.timer]
  /\ reqs' = reqs (-) SetToBag({r})

\* the status responses whose payload carries the error indicator
ErrorPayloads == {p \in StatusPayloads : p.error}

PollingEventuallyStops ==
  /\ \A t \in Handles :
       (t \in live /\ owner[t] \in Instances /\ Terminal(owner[t])) ~> (t \notin live)
  /\ [][\A t \in Handles : t < nextTimer /\ t \notin live => t \notin live']_vars

\* C18 witness: the poll of an instance whose run returned has delivered the
\* derived fields and has no interval any more
PollStoppedAfterComplete ==
  \E i \in Instances :
    /\ pc[i] = "done"
    /\ out = <<Callback(i, "complete", db[i].tags, db[i].altText)>>
    /\ pollingIntervals[i] = NoTimer /\ LiveFor(i) = {}

\* no poll of the identifier of interval t was started after t
LatestPollOf(t) == \A u \in Handles : u > t /\ u < nextTimer => owner[u] # owner[t]

\* C19 (as claimed, for a terminal `error`): once an invocation of a poll has
\* made the `error` callback and the interval of its identifier is cleared, no
\* step of a request of that poll makes a callback, as long as startPolling is
\* not called again for the identifier
NoCallbackAfterTerminal ==
  [][\A r \in BagToSet(reqs) :
       /\ r.timer \in reported
       /\ pollingIntervals[owner[r.timer]] = NoTimer /\ LiveFor(owner[r.timer]) = {}
       /\ LatestPollOf(r.timer)
       /\ Settles(r)
       => out' = <<>>]_vars

\* C20 (as claimed): when a request of a cleared interval settles after
\* startPolling was called again for its identifier, the new interval stays
\* in the table and stays live
RestartSurvivesOldRequest ==
  [][\A r \in BagToSet(reqs) :
       /\ r.timer \notin live
       /\ pollingIntervals[owner[r.timer]] > r.timer
       /\ pollingIntervals[owner[r.timer]] \in live
       /\ Settles(r)
       => /\ pollingIntervals'[owner[r.timer]] = pollingIntervals[owner[r.timer]]
          /\ pollingIntervals[owner[r.timer]] \in live']_vars

====
